---- MODULE Spec2Model ----
(***************************************************************************)
(* Model of the record store of FinanceApp (src/src/pages/Index.tsx):      *)
(* the three useState collections, the form submit pipeline                *)
(* (handleSubmit + zodResolver + add handler), markPaymentAsPaid and the   *)
(* useEffect that derives the notification list from the payments.         *)
(*                                                                         *)
(* Numbers are integers counted in 1/Unit, so that Unit is 1.0 and Half is *)
(* a positive value below 1.  Instants are integers counted in ticks,      *)
(* TicksPerDay ticks to a day, tick 0 being 2025-01-01T00:00.  A record is *)
(* a function from field names to values; an absent optional field is a    *)
(* name outside the DOMAIN.                                                *)
(***************************************************************************)
EXTENDS Integers, Sequences, FiniteSets, TLC

VARIABLES transactions, payments, shifts, notifications, clock, result

vars == <<transactions, payments, shifts, notifications, clock, result>>

collections == <<transactions, payments, shifts>>

\* ---- bounds and resolution ------------------------------------------------

Unit == 2

TicksPerDay == 2

MaxAdds == 2

MaxTicks == 1

Half == Unit \div 2

\* Number.NaN, also the time value of an Invalid Date
NaN == 0 - (1000000 * Unit)

InvalidDate == NaN

Day(n) == n * TicksPerDay

DaysBeforeMonth(m) == IF m = 1 THEN 0 ELSE 31

\* new Date('2025-mm-dd')
Date2025(m, d) == Day(DaysBeforeMonth(m) + d - 1)

\* the instant at which the component is mounted
ClockStart == Date2025(2, 1)

\* ---- records --------------------------------------------------------------

Has(r, k) == k \in DOMAIN r

Restrict(r, K) == [k \in (DOMAIN r) \cap K |-> r[k]]

Digit(d) ==
  CASE d = 0 -> "0" [] d = 1 -> "1" [] d = 2 -> "2" [] d = 3 -> "3"
    [] d = 4 -> "4" [] d = 5 -> "5" [] d = 6 -> "6" [] d = 7 -> "7"
    [] d = 8 -> "8" [] d = 9 -> "9"

RECURSIVE NumberToString(_)
NumberToString(n) ==
  IF n < 10 THEN Digit(n) ELSE NumberToString(n \div 10) \o Digit(n % 10)

\* Date.now()
DateNow == clock

\* ---- seed data ------------------------------------------------------------

SeedTransactions == <<
  [id |-> "1", type |-> "income", category |-> "Zarplata",
   amount |-> 85000 * Unit, description |-> "main salary", date |-> Date2025(1, 15)],
  [id |-> "2", type |-> "expense", category |-> "ZhKKh",
   amount |-> 8500 * Unit, description |-> "utilities", date |-> Date2025(1, 10)],
  [id |-> "3", type |-> "expense", category |-> "Produkty",
   amount |-> 12000 * Unit, description |-> "groceries", date |-> Date2025(1, 8)],
  [id |-> "4", type |-> "income", category |-> "Frilans",
   amount |-> 25000 * Unit, description |-> "extra income", date |-> Date2025(1, 20)] >>

SeedPayments == <<
  [id |-> "1", name |-> "utilities", amount |-> 8500 * Unit,
   dueDate |-> Date2025(2, 10), status |-> "pending", type |-> "recurring"],
  [id |-> "2", name |-> "bank credit", amount |-> 15000 * Unit,
   dueDate |-> Date2025(2, 5), status |-> "pending", type |-> "credit"],
  [id |-> "3", name |-> "internet", amount |-> 1200 * Unit,
   dueDate |-> Date2025(2, 1), status |-> "overdue", type |-> "recurring"],
  [id |-> "4", name |-> "mobile", amount |-> 800 * Unit,
   dueDate |-> Date2025(2, 3), status |-> "paid", type |-> "recurring"] >>

SeedShifts == <<
  [id |-> "1", date |-> Date2025(1, 15), hours |-> 8 * Unit,
   hourlyRate |-> 800 * Unit, bonus |-> 2000 * Unit],
  [id |-> "2", date |-> Date2025(1, 16), hours |-> 8 * Unit,
   hourlyRate |-> 800 * Unit],
  [id |-> "3", date |-> Date2025(1, 17), hours |-> 6 * Unit,
   hourlyRate |-> 800 * Unit, deductions |-> 300 * Unit],
  [id |-> "4", date |-> Date2025(1, 18), hours |-> 8 * Unit,
   hourlyRate |-> 800 * Unit, bonus |-> 1000 * Unit] >>

\* ---- validation: the zod schemas ------------------------------------------

\* z.number().min(min): a number (NaN is not one) that is at least min
ZNumberMin(data, k, min) == Has(data, k) /\ data[k] # NaN /\ data[k] >= min

\* z.number().optional(): undefined, or a number (NaN is not one)
ZNumberOptional(data, k) == ~Has(data, k) \/ data[k] # NaN

\* z.string().min(1)
ZStringMin1(data, k) == Has(data, k) /\ data[k] # ""

\* z.enum([...])
ZEnum(data, k, allowed) == Has(data, k) /\ data[k] \in allowed

\* z.date(): a Date whose time value is not NaN
ZDate(data, k) == Has(data, k) /\ data[k] # InvalidDate

TransactionKeys == {"type", "category", "amount", "description", "date"}

ShiftKeys == {"date", "hours", "hourlyRate", "bonus", "deductions"}

PaymentKeys == {"name", "amount", "dueDate", "type"}

\* variant: amount: z.number().min(0)
transactionSchema_min0(data) ==
  {k \in TransactionKeys :
     ~ CASE k = "type" -> ZEnum(data, k, {"income", "expense"})
         [] k = "category" -> ZStringMin1(data, k)
         [] k = "amount" -> ZNumberMin(data, k, 0)
         [] k = "description" -> ZStringMin1(data, k)
         [] k = "date" -> ZDate(data, k)}

\* the fields of data that transactionSchema reports an issue for
transactionSchema(data) ==
  {k \in TransactionKeys :
     ~ CASE k = "type" -> ZEnum(data, k, {"income", "expense"})
         [] k = "category" -> ZStringMin1(data, k)
         [] k = "amount" -> ZNumberMin(data, k, Unit)
         [] k = "description" -> ZStringMin1(data, k)
         [] k = "date" -> ZDate(data, k)}

\* variant: hours: z.number().optional()
shiftSchema_nohours(data) ==
  {k \in ShiftKeys :
     ~ CASE k = "date" -> ZDate(data, k)
         [] k = "hours" -> ZNumberOptional(data, k)
         [] k = "hourlyRate" -> ZNumberMin(data, k, Unit)
         [] k = "bonus" -> ZNumberOptional(data, k)
         [] k = "deductions" -> ZNumberOptional(data, k)}

shiftSchema(data) ==
  {k \in ShiftKeys :
     ~ CASE k = "date" -> ZDate(data, k)
         [] k = "hours" -> ZNumberMin(data, k, Unit)
         [] k = "hourlyRate" -> ZNumberMin(data, k, Unit)
         [] k = "bonus" -> ZNumberOptional(data, k)
         [] k = "deductions" -> ZNumberOptional(data, k)}

paymentSchema(data) ==
  {k \in PaymentKeys :
     ~ CASE k = "name" -> ZStringMin1(data, k)
         [] k = "amount" -> ZNumberMin(data, k, Unit)
         [] k = "dueDate" -> ZDate(data, k)
         [] k = "type" -> ZEnum(data, k, {"recurring", "credit", "debt"})}

\* z.object(...) parses to an object with the schema's keys only
ZObjectParse(data, keys) == Restrict(data, keys)

\* ---- the notifier ---------------------------------------------------------

\* date-fns differenceInDays: full days, truncated towards zero
\* variant: rounded down, so that half a day past is a day past
differenceInDaysFloor(dateLeft, dateRight) == (dateLeft - dateRight) \div TicksPerDay

differenceInDays(dateLeft, dateRight) ==
  LET diff == dateLeft - dateRight
  IN  IF diff >= 0 THEN diff \div TicksPerDay ELSE 0 - ((0 - diff) \div TicksPerDay)

\* variant: only pending payments are looked at
isUpcomingPending(payment, today) ==
  /\ payment.status = "pending"
  /\ differenceInDays(payment.dueDate, today) <= 3
  /\ differenceInDays(payment.dueDate, today) >= 0

isUpcoming(payment, today) ==
  /\ payment.status # "paid"
  /\ differenceInDays(payment.dueDate, today) <= 3
  /\ differenceInDays(payment.dueDate, today) >= 0

\* variant: a payment due tomorrow is an error as well
checkUpcomingPaymentsEarly(ps, today) ==
  LET upcomingPayments == SelectSeq(ps, LAMBDA payment : isUpcoming(payment, today))
  IN  [i \in 1..Len(upcomingPayments) |->
         LET payment == upcomingPayments[i]
         IN  [id |-> payment.id,
              message |-> <<payment.name, payment.amount,
                            differenceInDays(payment.dueDate, today)>>,
              type |-> IF differenceInDays(payment.dueDate, today) <= 1
                         THEN "error" ELSE "warning"]]

\* variant: the most recently listed payment comes last
checkUpcomingPaymentsReversed(ps, today) ==
  LET upcomingPayments == SelectSeq(ps, LAMBDA payment : isUpcoming(payment, today))
  IN  [i \in 1..Len(upcomingPayments) |->
         LET payment == upcomingPayments[Len(upcomingPayments) + 1 - i]
         IN  [id |-> payment.id,
              message |-> <<payment.name, payment.amount,
                            differenceInDays(payment.dueDate, today)>>,
              type |-> IF differenceInDays(payment.dueDate, today) = 0
                         THEN "error" ELSE "warning"]]

checkUpcomingPayments(ps, today) ==
  LET upcomingPayments == SelectSeq(ps, LAMBDA payment : isUpcoming(payment, today))
  IN  [i \in 1..Len(upcomingPayments) |->
         LET payment == upcomingPayments[i]
         IN  [id |-> payment.id,
              message |-> <<payment.name, payment.amount,
                            differenceInDays(payment.dueDate, today)>>,
              type |-> IF differenceInDays(payment.dueDate, today) = 0
                         THEN "error" ELSE "warning"]]

\* ---- the handlers ---------------------------------------------------------

\* { ...a, ...b }: the fields of both, b's value where both have the field
Spread(a, b) == b @@ a

\* variant: [...prev, record]
PrependAtEnd(record, prev) == prev \o <<record>>

\* [record, ...prev]
\* variant: the list keeps its length, its last record makes room
PrependDropLast(record, prev) == <<record>> \o SubSeq(prev, 1, Len(prev) - 1)

Prepend(record, prev) == <<record>> \o prev

NewTransaction(data) == Spread("id" :> NumberToString(DateNow), data)

NewShift(data) == Spread("id" :> NumberToString(DateNow), data)

\* variant: status 'paid' instead of 'pending'
NewPaymentPaid(data) ==
  Spread(Spread("id" :> NumberToString(DateNow), data), "status" :> "paid")

\* variant: a payment entered with a due date in the past starts as overdue
NewPaymentOverdue(data) ==
  Spread(Spread("id" :> NumberToString(DateNow), data),
         "status" :> (IF data.dueDate < DateNow THEN "overdue" ELSE "pending"))

NewPayment(data) ==
  Spread(Spread("id" :> NumberToString(DateNow), data), "status" :> "pending")

\* variant: a paid payment goes back to pending
SetPaidToggle(payment, paymentId) ==
  IF payment.id = paymentId
    THEN Spread(payment, "status" :> (IF payment.status = "paid" THEN "pending" ELSE "paid"))
    ELSE payment

\* payment.id === paymentId ? { ...payment, status: 'paid' } : payment
\* variant: the id is not looked at
SetPaidAll(payment, paymentId) == Spread(payment, "status" :> "paid")

SetPaid(payment, paymentId) ==
  IF payment.id = paymentId THEN Spread(payment, "status" :> "paid") ELSE payment

TotalRecords == Len(transactions) + Len(payments) + Len(shifts)

SeedRecords == Len(SeedTransactions) + Len(SeedPayments) + Len(SeedShifts)

CanAdd == TotalRecords < SeedRecords + MaxAdds

Toast(title) == [toast |-> title, errors |-> FALSE]

Rejected(errors) == [toast |-> "none", errors |-> errors # {}]

addTransaction(data) ==
  /\ transactions' = Prepend(NewTransaction(data), transactions)
  /\ result' = Toast("TransactionAdded")
  /\ UNCHANGED <<payments, shifts, notifications, clock>>

addShift(data) ==
  /\ shifts' = Prepend(NewShift(data), shifts)
  /\ result' = Toast("ShiftAdded")
  /\ UNCHANGED <<transactions, payments, notifications, clock>>

\* setPayments, then the effect that depends on payments
addPayment(data) ==
  /\ payments' = Prepend(NewPayment(data), payments)
  /\ notifications' = checkUpcomingPayments(payments', clock)
  /\ result' = Toast("PaymentAdded")
  /\ UNCHANGED <<transactions, shifts, clock>>

\* form.handleSubmit(onSubmit) with zodResolver(schema): onSubmit gets the
\* parsed data when the schema reports no issue, else the form keeps the errors
handleSubmitRejected(errors) ==
  /\ result' = Rejected(errors)
  /\ UNCHANGED <<collections, notifications, clock>>

SubmitTransaction(data) ==
  IF transactionSchema(data) = {}
    THEN CanAdd /\ addTransaction(ZObjectParse(data, TransactionKeys))
    ELSE handleSubmitRejected(transactionSchema(data))

SubmitShift(data) ==
  IF shiftSchema(data) = {}
    THEN CanAdd /\ addShift(ZObjectParse(data, ShiftKeys))
    ELSE handleSubmitRejected(shiftSchema(data))

SubmitPayment(data) ==
  IF paymentSchema(data) = {}
    THEN CanAdd /\ addPayment(ZObjectParse(data, PaymentKeys))
    ELSE handleSubmitRejected(paymentSchema(data))

\* prev.map(...) builds a new array every time, so the effect runs every time
\* variant: a payment marked as paid is booked as an expense as well
markPaymentAsPaidBooked(paymentId) ==
  /\ payments' = [i \in 1..Len(payments) |-> SetPaid(payments[i], paymentId)]
  /\ transactions' =
       IF \E i \in 1..Len(payments) : payments[i].id = paymentId
         THEN Prepend([id |-> NumberToString(DateNow), type |-> "expense",
                       category |-> "payment", amount |-> Unit,
                       description |-> "paid", date |-> clock], transactions)
         ELSE transactions
  /\ notifications' = checkUpcomingPayments(payments', clock)
  /\ result' = Toast("PaymentMarkedPaid")
  /\ UNCHANGED <<shifts, clock>>

\* variant: the effect on payments does not run afterwards
markPaymentAsPaidNoEffect(paymentId) ==
  /\ payments' = [i \in 1..Len(payments) |-> SetPaid(payments[i], paymentId)]
  /\ result' = Toast("PaymentMarkedPaid")
  /\ UNCHANGED <<transactions, shifts, notifications, clock>>

markPaymentAsPaid(paymentId) ==
  /\ payments' = [i \in 1..Len(payments) |-> SetPaid(payments[i], paymentId)]
  /\ notifications' = checkUpcomingPayments(payments', clock)
  /\ result' = Toast("PaymentMarkedPaid")
  /\ UNCHANGED <<transactions, shifts, clock>>

\* time passes; nothing observes it
Tick ==
  /\ clock < ClockStart + MaxTicks
  /\ clock' = clock + 1
  /\ UNCHANGED <<collections, notifications, result>>

\* ---- inputs ---------------------------------------------------------------

TxData(t, c, a, d, dt) ==
  [type |-> t, category |-> c, amount |-> a, description |-> d, date |-> dt]

TransactionInputs ==
  {TxData("income", "salary", 2 * Unit, "pay", Date2025(2, 1)),
   TxData("expense", "food", Unit, "lunch", Date2025(2, 1)),
   TxData("transfer", "food", Unit, "lunch", Date2025(2, 1))}
  \cup {TxData("expense", "food", a, "lunch", Date2025(2, 1)) : a \in {NaN, 0 - Unit, 0, Half}}
  \cup {TxData("expense", "", Unit, "lunch", Date2025(2, 1)),
        TxData("expense", "food", Unit, "", Date2025(2, 1)),
        TxData("expense", "food", Unit, "lunch", InvalidDate),
        Restrict(TxData("expense", "food", Unit, "lunch", Date2025(2, 1)),
                 TransactionKeys \ {"category"})}

ShData(dt, h, r) == [date |-> dt, hours |-> h, hourlyRate |-> r]

ShiftInputs ==
  {ShData(Date2025(2, 1), h, Unit) : h \in {0 - Unit, 0, Half, Unit}}
  \cup {ShData(Date2025(2, 1), Unit, r) : r \in {0, Half}}
  \cup {ShData(InvalidDate, Unit, Unit)}
  \cup {("bonus" :> NaN) @@ ShData(Date2025(2, 1), Unit, Unit),
        ("deductions" :> NaN) @@ ShData(Date2025(2, 1), Unit, Unit),
        ("bonus" :> 0 - Unit) @@ ("deductions" :> 0 - Half) @@ ShData(Date2025(2, 1), Unit, Unit)}

PayData(n, a, due, t) == [name |-> n, amount |-> a, dueDate |-> due, type |-> t]

PaymentInputs ==
  {PayData("rent", Unit, due, "debt") : due \in {InvalidDate, Date2025(2, 3)}}
  \cup {PayData("rent", a, Date2025(2, 3), "debt") : a \in {0 - Unit, 0, Half}}
  \cup {PayData("", Unit, Date2025(2, 3), "debt"),
        PayData("rent", Unit, Date2025(2, 3), "other"),
        ("status" :> "paid") @@ PayData("rent", Unit, Date2025(2, 3), "debt")}

AbsentId == "999"

PaymentIds == {payments[i].id : i \in 1..Len(payments)}

\* ---- specification --------------------------------------------------------

Init ==
  /\ transactions = SeedTransactions
  /\ payments = SeedPayments
  /\ shifts = SeedShifts
  /\ clock = ClockStart
  /\ notifications = checkUpcomingPayments(SeedPayments, ClockStart)
  /\ result = Rejected({})

Next ==
  \/ \E data \in TransactionInputs : SubmitTransaction(data)
  \/ \E data \in ShiftInputs : SubmitShift(data)
  \/ \E data \in PaymentInputs : SubmitPayment(data)
  \/ \E paymentId \in PaymentIds \cup {AbsentId} : markPaymentAsPaid(paymentId)
  \/ Tick

Spec == Init /\ [][Next]_vars

TypeOK ==
  /\ \A i \in 1..Len(payments) : payments[i].status \in {"pending", "paid", "overdue"}
  /\ clock \in ClockStart..(ClockStart + MaxTicks)

\* ---- derived values: totals and balance --------------------------------------

\* ts.reduce((sum, t) => sum + t.amount, sum)
RECURSIVE ReduceAmount(_, _)
ReduceAmount(ts, sum) ==
  IF ts = <<>> THEN sum ELSE ReduceAmount(Tail(ts), sum + Head(ts).amount)

\* variant: every transaction counts, whatever its type
TotalOfTypeUnfiltered(ts, type) == ReduceAmount(ts, 0)

\* ts.filter(t => t.type === type).reduce((sum, t) => sum + t.amount, 0)
TotalOfType(ts, type) ==
  ReduceAmount(SelectSeq(ts, LAMBDA t : t.type = type), 0)

totalIncome == TotalOfType(transactions, "income")

totalExpenses == TotalOfType(transactions, "expense")

\* variant: the expenses are added
balancePlus == totalIncome + totalExpenses

balance == totalIncome - totalExpenses

\* ---- derived values: salary ---------------------------------------------------
\* hours, hourlyRate, bonus and deductions are counted in 1/Unit, so a product
\* hours * hourlyRate is counted in 1/(Unit * Unit); bonus and deductions are
\* brought to that scale before they are added.

\* date.getDate(): the day of the month, January to March 2025, in the time
\* zone in which the seed dates fall on midnight
getDate(date) ==
  LET n == date \div TicksPerDay
  IN  IF n < 31 THEN n + 1 ELSE IF n < 59 THEN n - 30 ELSE n - 58

\* shift[k] || 0: undefined, 0 and NaN are falsy
OrZero(shift, k) ==
  IF Has(shift, k) /\ shift[k] # 0 /\ shift[k] # NaN THEN shift[k] ELSE 0

\* variant: the 15th counts for the first period as well
salaryPeriod1_15 ==
  SelectSeq(shifts, LAMBDA s : getDate(s.date) >= 30 \/ getDate(s.date) <= 15)

salaryPeriod1 ==
  SelectSeq(shifts, LAMBDA s : getDate(s.date) >= 30 \/ getDate(s.date) <= 14)

\* variant: the second period ends a day early
salaryPeriod2_28 ==
  SelectSeq(shifts, LAMBDA s : getDate(s.date) >= 15 /\ getDate(s.date) <= 28)

salaryPeriod2 ==
  SelectSeq(shifts, LAMBDA s : getDate(s.date) >= 15 /\ getDate(s.date) <= 29)

\* variant: the deductions are added
shiftRowTotalPlus(shift) ==
  (shift.hours * shift.hourlyRate) + (Unit * OrZero(shift, "bonus"))
    + (Unit * OrZero(shift, "deductions"))

\* the total shown in a shift's row
shiftRowTotal(shift) ==
  (shift.hours * shift.hourlyRate) + (Unit * OrZero(shift, "bonus"))
    - (Unit * OrZero(shift, "deductions"))

\* the reduce callback: total + base + bonus - deductions
SalaryStep(total, shift) ==
  LET base == shift.hours * shift.hourlyRate
      bonus == Unit * OrZero(shift, "bonus")
      deductions == Unit * OrZero(shift, "deductions")
  IN  total + base + bonus - deductions

RECURSIVE ReduceSalary(_, _)
ReduceSalary(shs, total) ==
  IF shs = <<>> THEN total ELSE ReduceSalary(Tail(shs), SalaryStep(total, Head(shs)))

\* variant: the running total is dropped, only the last shift counts
calculateSalaryLast(shs) ==
  IF shs = <<>> THEN 0 ELSE SalaryStep(0, shs[Len(shs)])

calculateSalary(shs) == ReduceSalary(shs, 0)

\* the shift form filled in for every day of January, and with the optional
\* fields given as 0, as a fraction and larger than the base pay
SalaryShiftInputs ==
  {ShData(Date2025(1, d), Unit, Unit) : d \in 1..31}
  \cup {("bonus" :> 0) @@ ShData(Date2025(1, 14), Unit, 2 * Unit),
        ("deductions" :> 0) @@ ShData(Date2025(1, 15), 2 * Unit, Unit),
        ("bonus" :> Half) @@ ("deductions" :> 3 * Unit) @@ ShData(Date2025(1, 30), Unit, Unit),
        ShData(Date2025(1, 29), 0, Unit)}

\* the salary tab alone: shifts are submitted, nothing else happens
SalaryNext == \E data \in SalaryShiftInputs : SubmitShift(data)

SpecSalary == Init /\ [][SalaryNext]_vars

\* ---- the payments tab alone ---------------------------------------------------

\* the payment form filled in with due dates before, at and after the start
\* of the clock, and once with an amount the schema refuses
NotifierPaymentInputs ==
  {PayData("rent", Unit, due, "debt") :
     due \in {Date2025(1, 31), Date2025(2, 1), Date2025(2, 3)}}
  \cup {PayData("rent", 0, Date2025(2, 3), "debt")}

\* payments are submitted and marked as paid while the clock runs
NotifierNext ==
  \/ \E data \in NotifierPaymentInputs : SubmitPayment(data)
  \/ \E paymentId \in PaymentIds \cup {AbsentId} : markPaymentAsPaid(paymentId)
  \/ Tick

SpecNotifier == Init /\ [][NotifierNext]_vars

\* ---- several calls before the next render --------------------------------------
\* A call of a handler hands its updater to the setter of its collection and
\* shows its toast; the collections change at the next render, when each
\* collection's queued updaters are applied in call order, each to the value
\* the one before it returned. The effect on payments runs after that render.

ValidTransactionData ==
  {ZObjectParse(data, TransactionKeys) :
     data \in {d \in TransactionInputs : transactionSchema(d) = {}}}

ValidShiftData ==
  {ZObjectParse(data, ShiftKeys) : data \in {d \in ShiftInputs : shiftSchema(d) = {}}}

ValidPaymentData ==
  {ZObjectParse(data, PaymentKeys) : data \in {d \in PaymentInputs : paymentSchema(d) = {}}}

\* the collection whose setter the handler calls
SetterOf(call) ==
  CASE call.op = "addTransaction" -> "transactions"
    [] call.op = "addShift" -> "shifts"
    [] call.op = "addPayment" -> "payments"
    [] call.op = "markPaymentAsPaid" -> "payments"

ToastOf(call) ==
  CASE call.op = "addTransaction" -> "TransactionAdded"
    [] call.op = "addShift" -> "ShiftAdded"
    [] call.op = "addPayment" -> "PaymentAdded"
    [] call.op = "markPaymentAsPaid" -> "PaymentMarkedPaid"

\* the value of the collection as the handler's render saw it
Rendered(call) ==
  CASE SetterOf(call) = "transactions" -> transactions
    [] SetterOf(call) = "shifts" -> shifts
    [] SetterOf(call) = "payments" -> payments

\* variant: the setter is given a value built from the rendered collection
\* instead of a function of prev
UpdaterOfRendered(call, prev) ==
  CASE call.op = "addTransaction" -> Prepend(NewTransaction(call.data), Rendered(call))
    [] call.op = "addShift" -> Prepend(NewShift(call.data), Rendered(call))
    [] call.op = "addPayment" -> Prepend(NewPayment(call.data), Rendered(call))
    [] call.op = "markPaymentAsPaid" ->
         [i \in 1..Len(Rendered(call)) |-> SetPaid(Rendered(call)[i], call.paymentId)]

\* the function the handler hands to its setter, applied to prev
Updater(call, prev) ==
  CASE call.op = "addTransaction" -> Prepend(NewTransaction(call.data), prev)
    [] call.op = "addShift" -> Prepend(NewShift(call.data), prev)
    [] call.op = "addPayment" -> Prepend(NewPayment(call.data), prev)
    [] call.op = "markPaymentAsPaid" ->
         [i \in 1..Len(prev) |-> SetPaid(prev[i], call.paymentId)]

\* the queued updaters of one setter, applied in call order
RECURSIVE ProcessQueue(_, _)
ProcessQueue(queue, prev) ==
  IF queue = <<>> THEN prev
  ELSE ProcessQueue(Tail(queue), Updater(Head(queue), prev))

QueueOf(calls, setter) == SelectSeq(calls, LAMBDA call : SetterOf(call) = setter)

Adds(calls) == Cardinality({i \in 1..Len(calls) : calls[i].op # "markPaymentAsPaid"})

\* the handlers of calls are called one after the other, then comes the render
Batch(calls) ==
  /\ TotalRecords + Adds(calls) <= SeedRecords + MaxAdds
  /\ transactions' = ProcessQueue(QueueOf(calls, "transactions"), transactions)
  /\ shifts' = ProcessQueue(QueueOf(calls, "shifts"), shifts)
  /\ payments' = ProcessQueue(QueueOf(calls, "payments"), payments)
  /\ notifications' = IF QueueOf(calls, "payments") = <<>> THEN notifications
                      ELSE checkUpcomingPayments(payments', clock)
  /\ result' = Toast(ToastOf(calls[Len(calls)]))
  /\ UNCHANGED clock

BatchCalls ==
  {[op |-> "addTransaction", data |-> data] : data \in ValidTransactionData}
  \cup {[op |-> "addShift", data |-> data] : data \in ValidShiftData}
  \cup {[op |-> "addPayment", data |-> data] : data \in ValidPaymentData}
  \cup {[op |-> "markPaymentAsPaid", paymentId |-> paymentId] :
          paymentId \in {"1", "3", NumberToString(ClockStart)}}

\* two calls in one event
BatchNext == \E c1, c2 \in BatchCalls : Batch(<<c1, c2>>)

SpecBatch == Init /\ [][BatchNext]_vars

\* ---- chart data ---------------------------------------------------------------

\* the array behind the expense pie chart and the category list
expensesByCategory ==
  << [name |-> "ZhKKh", value |-> 8500 * Unit],
     [name |-> "Produkty", value |-> 12000 * Unit],
     [name |-> "Transport", value |-> 3500 * Unit],
     [name |-> "Razvlecheniya", value |-> 5000 * Unit],
     [name |-> "Odezhda", value |-> 4000 * Unit] >>

\* the array behind the income and expense bar chart
monthlyData ==
  << [month |-> "Dek", income |-> 110000 * Unit, expenses |-> 45000 * Unit],
     [month |-> "Yanv", income |-> 110000 * Unit, expenses |-> 52000 * Unit],
     [month |-> "Fev", income |-> 115000 * Unit, expenses |-> 48000 * Unit],
     [month |-> "Mar", income |-> 120000 * Unit, expenses |-> 55000 * Unit],
     [month |-> "Apr", income |-> 118000 * Unit, expenses |-> 50000 * Unit],
     [month |-> "Mai", income |-> 125000 * Unit, expenses |-> 58000 * Unit] >>

\* ---- the checks the specification lists for a candidate --------------------

PositiveNumber(data, k) == Has(data, k) /\ data[k] # NaN /\ data[k] > 0

NonEmptyString(data, k) == Has(data, k) /\ data[k] # ""

ValidDate(data, k) == Has(data, k) /\ data[k] # InvalidDate

PassesTransactionChecks(data) ==
  /\ Has(data, "type") /\ data.type \in {"income", "expense"}
  /\ NonEmptyString(data, "category")
  /\ PositiveNumber(data, "amount")
  /\ NonEmptyString(data, "description")
  /\ ValidDate(data, "date")

PassesShiftChecks(data) ==
  /\ ValidDate(data, "date")
  /\ PositiveNumber(data, "hours")
  /\ PositiveNumber(data, "hourlyRate")
  /\ (Has(data, "bonus") => data.bonus # NaN)
  /\ (Has(data, "deductions") => data.deductions # NaN)

PassesPaymentChecks(data) ==
  /\ NonEmptyString(data, "name")
  /\ PositiveNumber(data, "amount")
  /\ ValidDate(data, "dueDate")
  /\ Has(data, "type") /\ data.type \in {"recurring", "credit", "debt"}

\* ---- claims ---------------------------------------------------------------

\* C1: a payment whose status is 'paid' still has status 'paid' after any
\* step.  Add only prepends, so a payment is followed by its distance from the
\* end of the collection.
C1_PaidStaysPaid ==
  [][\A k \in 0..(Len(payments) - 1) :
       payments[Len(payments) - k].status = "paid"
         => /\ Len(payments') > k
            /\ payments'[Len(payments') - k].status = "paid"]_vars

\* the seed payment '1' was marked paid, then a payment was added, then
\* markPaymentAsPaid ran again; '1' is still paid
C1_Witness ==
  /\ result = Toast("PaymentMarkedPaid")
  /\ Len(payments) > Len(SeedPayments)
  /\ Head(payments).status = "pending"
  /\ \E i \in 1..Len(payments) : payments[i].id = "1" /\ payments[i].status = "paid"
  /\ \E i \in 1..Len(payments) : payments[i].id = "2" /\ payments[i].status = "paid"

\* C3: a status change addressed to an id that is not in the payment
\* collection fails, is not reported as a success, and leaves the payment
\* collection unchanged
C3_AbsentIdFails ==
  [][\A paymentId \in PaymentIds \cup {AbsentId} :
       (paymentId \notin PaymentIds /\ markPaymentAsPaid(paymentId))
         => /\ result'.toast # "PaymentMarkedPaid"
            /\ result'.errors
            /\ UNCHANGED payments]_vars

UniqueIds(records) ==
  \A i, j \in 1..Len(records) : i # j => records[i].id # records[j].id

\* C4: no two records of the same collection share an id
C4_UniqueIds == UniqueIds(transactions) /\ UniqueIds(shifts) /\ UniqueIds(payments)

Grown(old, new, fields) ==
  /\ Len(new) = Len(old) + 1
  /\ Tail(new) = old
  /\ Restrict(Head(new), DOMAIN fields) = fields

\* C5: after a successful add the new record is first, the earlier records
\* follow it in their previous order and the length has grown by exactly 1
C5_Prepends ==
  [][/\ result' = Toast("TransactionAdded")
          => \A data \in TransactionInputs :
               \/ Grown(transactions, transactions', Restrict(data, TransactionKeys))
               \/ ~SubmitTransaction(data)
     /\ result' = Toast("ShiftAdded")
          => \A data \in ShiftInputs :
               \/ Grown(shifts, shifts', Restrict(data, ShiftKeys))
               \/ ~SubmitShift(data)
     /\ result' = Toast("PaymentAdded")
          => \A data \in PaymentInputs :
               \/ Grown(payments, payments', Restrict(data, PaymentKeys))
               \/ ~SubmitPayment(data)]_vars

\* a second transaction was just added in front of the first added one
C5_Witness ==
  /\ result = Toast("TransactionAdded")
  /\ Len(transactions) = Len(SeedTransactions) + 2
  /\ transactions[1].type = "income"
  /\ transactions[2].type = "expense"

ZeroOrNegative(data, k) == Has(data, k) /\ data[k] # NaN /\ data[k] <= 0

ZeroOrNegativeAmountInputs == {data \in TransactionInputs : ZeroOrNegative(data, "amount")}

AmountOneInputs ==
  {data \in TransactionInputs : PassesTransactionChecks(data) /\ data.amount = Unit}

\* C6: addTransaction with amount 0 or negative is rejected with a validation
\* error; with amount 1 and the other fields passing it is accepted and the new
\* transaction is first
C6_AmountBoundary ==
  [][/\ \A data \in ZeroOrNegativeAmountInputs :
          \/ (result' = Rejected({"amount"}) /\ UNCHANGED transactions)
          \/ ~SubmitTransaction(data)
     /\ \A data \in AmountOneInputs :
          \/ /\ result' = Toast("TransactionAdded")
             /\ Restrict(Head(transactions'), TransactionKeys) = data
             /\ Head(transactions').amount = Unit
          \/ ~SubmitTransaction(data)]_vars

\* a transaction of amount 1 was just accepted
C6_Witness ==
  /\ result = Toast("TransactionAdded")
  /\ Len(transactions) > Len(SeedTransactions)
  /\ Head(transactions).amount = Unit

FailingTransactionInputs == {data \in TransactionInputs : ~PassesTransactionChecks(data)}

FailingShiftInputs == {data \in ShiftInputs : ~PassesShiftChecks(data)}

FailingPaymentInputs == {data \in PaymentInputs : ~PassesPaymentChecks(data)}

\* C7: a candidate that fails a listed check is rejected and all three
\* collections stay as they were
C7_InvalidNeverAdmitted ==
  [][\/ (result'.errors /\ UNCHANGED collections)
     \/ /\ \A data \in FailingTransactionInputs : ~SubmitTransaction(data)
        /\ \A data \in FailingShiftInputs : ~SubmitShift(data)
        /\ \A data \in FailingPaymentInputs : ~SubmitPayment(data)]_vars

\* a candidate was just rejected after records had been added
C7_Witness ==
  /\ result.errors
  /\ result.toast = "none"
  /\ TotalRecords > SeedRecords

\* C8: a candidate is accepted exactly when it passes the listed checks
\* (amount > 0, hours > 0, hourlyRate > 0, strings non-empty, enums allowed)
C8_AcceptsExactlyPositive ==
  [][/\ \A data \in TransactionInputs :
          SubmitTransaction(data) => (result'.errors <=> ~PassesTransactionChecks(data))
     /\ \A data \in ShiftInputs :
          SubmitShift(data) => (result'.errors <=> ~PassesShiftChecks(data))
     /\ \A data \in PaymentInputs :
          SubmitPayment(data) => (result'.errors <=> ~PassesPaymentChecks(data))]_vars

\* C9: every stored shift that has a bonus has bonus >= 0 and every stored
\* shift that has deductions has deductions >= 0
C9_NonNegativeAdjustments ==
  \A i \in 1..Len(shifts) :
    /\ Has(shifts[i], "bonus") => shifts[i].bonus >= 0
    /\ Has(shifts[i], "deductions") => shifts[i].deductions >= 0

\* C10: the payment stored by addPayment has status 'pending' right after the
\* add, also when the candidate carries a status of its own
C10_AddedIsPending ==
  [][result' = Toast("PaymentAdded")
       => \A data \in PaymentInputs :
            \/ (Has(Head(payments'), "status") /\ Head(payments').status = "pending")
            \/ ~SubmitPayment(data)]_vars

\* a payment was just added and it is pending, while another payment is paid
C10_Witness ==
  /\ result = Toast("PaymentAdded")
  /\ Len(payments) > Len(SeedPayments)
  /\ Head(payments).status = "pending"
  /\ \E i \in 1..Len(payments) : payments[i].status = "paid"

\* the amounts of the transactions of one kind, summed from the last one back
RECURSIVE TotalByKind(_, _)
TotalByKind(ts, kind) ==
  IF ts = <<>> THEN 0
  ELSE TotalByKind(SubSeq(ts, 1, Len(ts) - 1), kind)
         + (IF ts[Len(ts)].type = kind THEN ts[Len(ts)].amount ELSE 0)

\* C11: in every reachable state the balance is the total of the income
\* transactions minus the total of the expense transactions, and over an
\* empty collection it is 0
C11_BalanceIsDifference ==
  /\ balance = TotalByKind(transactions, "income") - TotalByKind(transactions, "expense")
  /\ TotalOfType(<<>>, "income") - TotalOfType(<<>>, "expense") = 0

\* an expense was just added and lowered the balance of the seed data
C11_Witness ==
  /\ result = Toast("TransactionAdded")
  /\ Head(transactions).type = "expense"
  /\ Len(transactions) = Len(SeedTransactions) + 1
  /\ balance = (89500 * Unit) - Unit

OtherKind(kind) == IF kind = "income" THEN "expense" ELSE "income"

\* C12: the total of a kind is the sum of the amounts of exactly the
\* transactions of that kind, 0 over an empty collection; a successful
\* addTransaction of kind k and amount a raises the total of k by exactly a
\* and leaves the total of the other kind unchanged
C12_TotalByKind ==
  [][/\ transactions = SeedTransactions
          => \A kind \in {"income", "expense"} :
               /\ TotalOfType(transactions, kind) = TotalByKind(transactions, kind)
               /\ TotalOfType(<<>>, kind) = 0
     /\ transactions' # transactions
          => \A kind \in {"income", "expense"} :
               TotalOfType(transactions', kind) = TotalByKind(transactions', kind)
     /\ (result' = Toast("TransactionAdded") /\ clock' = clock)
          => \A data \in TransactionInputs :
               \/ ~SubmitTransaction(data)
               \/ /\ TotalOfType(transactions', data.type)
                       = TotalOfType(transactions, data.type) + data.amount
                  /\ TotalOfType(transactions', OtherKind(data.type))
                       = TotalOfType(transactions, OtherKind(data.type))]_vars

\* an income of 2 was just added: the income total grew by 2, the expense
\* total is that of the seed data
C12_Witness ==
  /\ result = Toast("TransactionAdded")
  /\ Head(transactions).type = "income"
  /\ Len(transactions) = Len(SeedTransactions) + 1
  /\ totalIncome = (110000 * Unit) + (2 * Unit)
  /\ totalExpenses = 20500 * Unit

Without(r, k) == Restrict(r, (DOMAIN r) \ {k})

Given(r, k) == IF Has(r, k) THEN r[k] ELSE 0

\* hours * hourlyRate + (bonus or 0) - (deductions or 0), in 1/(Unit * Unit)
ShiftTotal(s) ==
  (s.hours * s.hourlyRate) + (Unit * Given(s, "bonus")) - (Unit * Given(s, "deductions"))

\* C13: the total of a shift is hours * hourlyRate + (bonus or 0) -
\* (deductions or 0), in the row and in calculateSalary alike; 8 h at 800
\* with bonus 2000 gives 8400, 6 h at 800 with deductions 300 gives 4500, and
\* an explicit 0 bonus or deductions gives the same total as an absent one
C13_ShiftTotal ==
  /\ \A i \in 1..Len(shifts) :
       LET s == shifts[i]
       IN  /\ shiftRowTotal(s) = ShiftTotal(s)
           /\ calculateSalary(<<s>>) = ShiftTotal(s)
           /\ shiftRowTotal(("bonus" :> 0) @@ Without(s, "bonus"))
                = shiftRowTotal(Without(s, "bonus"))
           /\ shiftRowTotal(("deductions" :> 0) @@ Without(s, "deductions"))
                = shiftRowTotal(Without(s, "deductions"))
  /\ \A i \in 1..Len(shifts) :
       /\ shifts[i].id = "1" => shiftRowTotal(shifts[i]) = 8400 * Unit * Unit
       /\ shifts[i].id = "3" => shiftRowTotal(shifts[i]) = 4500 * Unit * Unit

\* a shift with deductions above its base pay was added after one with an
\* explicit bonus of 0
C13_Witness ==
  /\ result = Toast("ShiftAdded")
  /\ Len(shifts) = Len(SeedShifts) + 2
  /\ Has(shifts[2], "bonus") /\ shifts[2].bonus = 0
  /\ shiftRowTotal(shifts[2]) = 2 * Unit * Unit
  /\ shiftRowTotal(shifts[1]) = (Unit * Unit) + (Unit * Half) - (3 * Unit * Unit)
  /\ shifts[Len(shifts)].id = "4" /\ shifts[Len(shifts) - 1].id = "3"

RECURSIVE SumShiftTotals(_)
SumShiftTotals(shs) ==
  IF shs = <<>> THEN 0
  ELSE SumShiftTotals(SubSeq(shs, 1, Len(shs) - 1)) + ShiftTotal(shs[Len(shs)])

\* C14: calculateSalary of a set of shifts is the sum of their shift totals,
\* and 0 for an empty set
C14_SalaryIsSum ==
  /\ calculateSalary(shifts) = SumShiftTotals(shifts)
  /\ calculateSalary(salaryPeriod1) = SumShiftTotals(salaryPeriod1)
  /\ calculateSalary(salaryPeriod2) = SumShiftTotals(salaryPeriod2)
  /\ calculateSalary(<<>>) = 0
  /\ salaryPeriod1 = <<>> => calculateSalary(salaryPeriod1) = 0

\* two shifts, of the 30th and of the 14th, make up the first period
C14_Witness ==
  /\ Len(salaryPeriod1) = 2
  /\ getDate(salaryPeriod1[1].date) = 30
  /\ getDate(salaryPeriod1[2].date) = 14
  /\ calculateSalary(salaryPeriod1) = 2 * Unit * Unit
  /\ calculateSalary(salaryPeriod2) = 26700 * Unit * Unit

Holds(shs, s) == \E j \in 1..Len(shs) : shs[j] = s

\* C15: a shift whose date has day of month d is in period 1 exactly when
\* d >= 30 or d <= 14 and in period 2 exactly when 15 <= d <= 29, so every
\* shift is in exactly one period (14 -> 1, 15 -> 2, 29 -> 2, 30 and 31 -> 1)
C15_PeriodByDay ==
  /\ \A i \in 1..Len(shifts) :
       LET s == shifts[i]
           d == getDate(s.date)
       IN  /\ d \in 1..31
           /\ Holds(salaryPeriod1, s) <=> (d >= 30 \/ d <= 14)
           /\ Holds(salaryPeriod2, s) <=> (15 <= d /\ d <= 29)
           /\ Holds(salaryPeriod1, s) # Holds(salaryPeriod2, s)
           /\ d \in {14, 30, 31} => Holds(salaryPeriod1, s)
           /\ d \in {15, 29} => Holds(salaryPeriod2, s)
  /\ Len(salaryPeriod1) + Len(salaryPeriod2) = Len(shifts)

\* a shift of the 31st was added after one of the 15th
C15_Witness ==
  /\ result = Toast("ShiftAdded")
  /\ Len(shifts) = Len(SeedShifts) + 2
  /\ getDate(shifts[1].date) = 31 /\ Holds(salaryPeriod1, shifts[1])
  /\ getDate(shifts[2].date) = 15 /\ Holds(salaryPeriod2, shifts[2])
  /\ ~Has(shifts[2], "deductions")

\* a step in which the effect on payments has run: a payment was added or a
\* payment was marked as paid
NotifierRan ==
  /\ clock' = clock
  /\ result' \in {Toast("PaymentAdded"), Toast("PaymentMarkedPaid")}

daysUntilDue(p, now) == differenceInDays(p.dueDate, now)

InWindow(p, now) ==
  p.status # "paid" /\ 0 <= daysUntilDue(p, now) /\ daysUntilDue(p, now) <= 3

\* as many notifications carry an id as payments of that id are in the window
NotifiedExactlyTheDue(ps, ns, now) ==
  \A x \in {ps[i].id : i \in 1..Len(ps)} \cup {ns[k].id : k \in 1..Len(ns)} :
    Cardinality({k \in 1..Len(ns) : ns[k].id = x})
      = Cardinality({i \in 1..Len(ps) : ps[i].id = x /\ InWindow(ps[i], now)})

\* C16: when the notifier runs over the payments at the date now, a payment
\* gets a notification exactly when its status is not paid and it is due in
\* 0 to 3 whole days, and it gets at most one (0 and 3 days: notified; 4
\* days: not; paid: not; overdue inside the window: notified)
C16_NotifiedInWindow ==
  [][/\ clock = ClockStart => NotifiedExactlyTheDue(payments, notifications, clock)
     /\ NotifierRan => NotifiedExactlyTheDue(payments', notifications', clock')]_vars

\* half a day on, an added payment due tomorrow was marked as paid: the
\* overdue payment due today and the one due in 3 days are notified, the
\* paid ones and the one due later are not
C16_Witness ==
  /\ result = Toast("PaymentMarkedPaid")
  /\ clock = ClockStart + 1
  /\ Len(payments) = Len(SeedPayments) + 1
  /\ Head(payments).status = "paid" /\ daysUntilDue(Head(payments), clock) = 1
  /\ payments[3].status = "pending" /\ daysUntilDue(payments[3], clock) = 3
  /\ payments[4].status = "overdue" /\ daysUntilDue(payments[4], clock) = 0
  /\ Len(notifications) = 2
  /\ notifications[1].id = "2" /\ notifications[2].id = "3"

SeverityByDays(ps, ns, now) ==
  \A k \in 1..Len(ns) :
    /\ ns[k].type \in {"error", "warning"}
    /\ \E i \in 1..Len(ps) :
         /\ ps[i].id = ns[k].id
         /\ InWindow(ps[i], now)
         /\ ns[k].type = "error" <=> daysUntilDue(ps[i], now) = 0
         /\ ns[k].type = "warning" <=> daysUntilDue(ps[i], now) \in 1..3

\* C17: a notification is of type error exactly when its payment is due in 0
\* whole days and of type warning when it is due in 1, 2 or 3; the notifier
\* never makes one of type info
C17_SeverityByDays ==
  [][/\ clock = ClockStart => SeverityByDays(payments, notifications, clock)
     /\ NotifierRan => SeverityByDays(payments', notifications', clock')
     /\ \A k \in 1..Len(notifications') : notifications'[k].type # "info"]_vars

\* a payment due in 2 days was just added: it has a warning, the payment due
\* today an error
C17_Witness ==
  /\ result = Toast("PaymentAdded")
  /\ clock = ClockStart
  /\ Len(notifications) = 2
  /\ notifications[1].id = Head(payments).id /\ notifications[1].type = "warning"
  /\ daysUntilDue(Head(payments), clock) = 2
  /\ notifications[2].id = "3" /\ notifications[2].type = "error"

InPaymentOrder(ps, ns, now) ==
  \A k1, k2 \in 1..Len(ns) :
    k1 < k2 => \E i1, i2 \in 1..Len(ps) :
                 /\ i1 < i2
                 /\ ps[i1].id = ns[k1].id /\ InWindow(ps[i1], now)
                 /\ ps[i2].id = ns[k2].id /\ InWindow(ps[i2], now)

\* C18: the notifications come in the order of their payments in the payment
\* collection, whatever the due dates; the notification of a payment that
\* addPayment has just added comes before those of the older payments
C18_PaymentOrder ==
  [][/\ clock = ClockStart => InPaymentOrder(payments, notifications, clock)
     /\ NotifierRan => InPaymentOrder(payments', notifications', clock')
     /\ (NotifierRan /\ result' = Toast("PaymentAdded")
           /\ InWindow(Head(payments'), clock'))
          => /\ Head(notifications').id = Head(payments').id
             /\ Len(notifications') = Len(checkUpcomingPayments(payments, clock')) + 1]_vars

\* half a day on a payment was added: it is notified first, then the payment
\* due in 3 days, then the one due today
C18_Witness ==
  /\ result = Toast("PaymentAdded")
  /\ clock = ClockStart + 1
  /\ Len(payments) = Len(SeedPayments) + 1
  /\ Len(notifications) = 3
  /\ notifications[1].id = Head(payments).id
  /\ notifications[2].id = "2" /\ notifications[2].type = "warning"
  /\ notifications[3].id = "3" /\ notifications[3].type = "error"

\* C19: after the date has advanced with the payments unchanged, the
\* notifications are the list derived from the payments and the new date
C19_RecomputedOnDateChange ==
  [][(clock' # clock /\ payments' = payments)
       => notifications' = checkUpcomingPayments(payments', clock')]_vars

RECURSIVE CategoryTotal(_, _, _)
CategoryTotal(ts, kind, category) ==
  IF ts = <<>> THEN 0
  ELSE CategoryTotal(Tail(ts), kind, category)
         + (IF Head(ts).type = kind /\ Head(ts).category = category
              THEN Head(ts).amount ELSE 0)

Reported(category) ==
  IF \E i \in 1..Len(expensesByCategory) : expensesByCategory[i].name = category
    THEN (CHOOSE e \in {expensesByCategory[i] : i \in 1..Len(expensesByCategory)} :
            e.name = category).value
    ELSE 0

\* C20: the expense breakdown gives, for each category, the sum of the
\* amounts of the expense transactions of that category in the current
\* collection, so an added expense of category c and amount a raises the
\* total reported for c by a
C20_BreakdownDerived ==
  \A c \in {expensesByCategory[i].name : i \in 1..Len(expensesByCategory)}
           \cup {transactions[i].category : i \in 1..Len(transactions)} :
    Reported(c) = CategoryTotal(transactions, "expense", c)

\* the calendar month of a date, January to March 2025
MonthOf(date) ==
  LET n == date \div TicksPerDay
  IN  IF n < 31 THEN 1 ELSE IF n < 59 THEN 2 ELSE 3

MonthLabel(m) == CASE m = 1 -> "Yanv" [] m = 2 -> "Fev" [] m = 3 -> "Mar"

MonthsWithTransactions == {MonthOf(transactions[i].date) : i \in 1..Len(transactions)}

RECURSIVE MonthTotal(_, _, _)
MonthTotal(ts, kind, m) ==
  IF ts = <<>> THEN 0
  ELSE MonthTotal(Tail(ts), kind, m)
         + (IF Head(ts).type = kind /\ MonthOf(Head(ts).date) = m
              THEN Head(ts).amount ELSE 0)

\* C21: the monthly breakdown has one entry per calendar month that has
\* transactions, in chronological order, with that month's income total and
\* expense total of the current collection, so an added transaction changes
\* the entry of its month by its amount
C21_MonthlyDerived ==
  /\ Len(monthlyData) = Cardinality(MonthsWithTransactions)
  /\ \A k \in 1..Len(monthlyData) :
       \E m \in MonthsWithTransactions :
         /\ Cardinality({n \in MonthsWithTransactions : n < m}) = k - 1
         /\ monthlyData[k].month = MonthLabel(m)
         /\ monthlyData[k].income = MonthTotal(transactions, "income", m)
         /\ monthlyData[k].expenses = MonthTotal(transactions, "expense", m)

Count(records, r) == Cardinality({i \in 1..Len(records) : records[i] = r})

\* every record of old is in new, field for field, as often as it was
Kept(old, new) ==
  /\ Len(new) >= Len(old)
  /\ \A i \in 1..Len(old) : Count(new, old[i]) >= Count(old, old[i])

\* C22: in every step every record of the transaction collection and of the
\* shift collection stays in it with all its fields unchanged, and neither
\* collection shrinks
C22_StoredStay ==
  [][/\ transactions' # transactions => Kept(transactions, transactions')
     /\ shifts' # shifts => Kept(shifts, shifts')]_vars

\* a transaction and a shift were added, then a payment was marked as paid:
\* the seed records are all still there
C22_Witness ==
  /\ result = Toast("PaymentMarkedPaid")
  /\ Len(transactions) = Len(SeedTransactions) + 1
  /\ Len(shifts) = Len(SeedShifts) + 1
  /\ Tail(transactions) = SeedTransactions
  /\ Tail(shifts) = SeedShifts

\* a step of markPaymentAsPaid
MarkedPaid == result' = Toast("PaymentMarkedPaid") /\ clock' = clock

OnlyStatusOf(old, new, paymentId) ==
  /\ Len(new) = Len(old)
  /\ \A i \in 1..Len(old) :
       /\ DOMAIN new[i] = DOMAIN old[i]
       /\ \A k \in {"id", "name", "amount", "dueDate", "type"} : new[i][k] = old[i][k]
       /\ old[i].id # paymentId => new[i] = old[i]

\* C23: markPaymentAsPaid(id) changes nothing but the status of the payments
\* whose id is id: their other fields and every other payment are unchanged
\* and the payment collection keeps its length and order
C23_OnlyStatusChanges ==
  [][MarkedPaid
       => \A paymentId \in PaymentIds \cup {AbsentId} :
            \/ ~markPaymentAsPaid(paymentId)
            \/ OnlyStatusOf(payments, payments', paymentId)]_vars

\* the second seed payment was marked as paid after a payment had been added
C23_Witness ==
  /\ result = Toast("PaymentMarkedPaid")
  /\ Len(payments) = Len(SeedPayments) + 1
  /\ Head(payments).status = "pending"
  /\ payments[2] = SeedPayments[1]
  /\ payments[3].id = "2" /\ payments[3].status = "paid"
  /\ payments[3].amount = 15000 * Unit /\ payments[3].dueDate = Date2025(2, 5)
  /\ payments[4] = SeedPayments[3]

\* the payment that is k-th from the end of the list; an added payment goes
\* to the front, so the earlier ones keep their place from the end
FromEnd(ps, k) == ps[Len(ps) + 1 - k]

\* C24: no step sets a payment's status to overdue, so the overdue payments
\* are never more than at the start, and a pending payment stays pending,
\* however far the clock passes its due date, until it is marked as paid
C24_OverdueNeverSet ==
  [][/\ Len(payments') >= Len(payments)
     /\ \A k \in 1..Len(payments') :
          FromEnd(payments', k).status = "overdue"
            => k <= Len(payments) /\ FromEnd(payments, k).status = "overdue"
     /\ \A k \in 1..Len(payments) :
          FromEnd(payments, k).status = "pending"
            => \/ FromEnd(payments', k).status = "pending"
               \/ FromEnd(payments', k).status = "paid" /\ MarkedPaid
     /\ clock' # clock => payments' = payments]_vars

\* the clock has moved on and the payment added with a due date of the day
\* before is still pending; the only overdue payment is the seed's
C24_Witness ==
  /\ clock = ClockStart + 1
  /\ Len(payments) = Len(SeedPayments) + 1
  /\ Head(payments).status = "pending"
  /\ Head(payments).dueDate = Date2025(1, 31)
  /\ Head(payments).dueDate + TicksPerDay < clock
  /\ {i \in 1..Len(payments) : payments[i].status = "overdue"} = {4}

\* q is the number of whole 24-hour periods in a span of ticks, counted
\* towards zero
WholeDays(q, span) ==
  IF span >= 0
    THEN q * TicksPerDay <= span /\ span < (q + 1) * TicksPerDay
    ELSE (q - 1) * TicksPerDay < span /\ span <= q * TicksPerDay

InRawWindow(p, now) ==
  /\ p.status # "paid"
  /\ 0 - TicksPerDay < p.dueDate - now
  /\ p.dueDate - now < 4 * TicksPerDay

JustPastDue(p, now) ==
  p.status # "paid" /\ 0 - TicksPerDay < p.dueDate - now /\ p.dueDate - now < 0

TruncatedWindow(ps, ns, now) ==
  /\ \A i \in 1..Len(ps) : WholeDays(daysUntilDue(ps[i], now), ps[i].dueDate - now)
  /\ \A x \in {ps[i].id : i \in 1..Len(ps)} \cup {ns[k].id : k \in 1..Len(ns)} :
       Cardinality({k \in 1..Len(ns) : ns[k].id = x})
         = Cardinality({i \in 1..Len(ps) : ps[i].id = x /\ InRawWindow(ps[i], now)})
  /\ \A i \in 1..Len(ps) :
       JustPastDue(ps[i], now)
         => /\ daysUntilDue(ps[i], now) = 0
            /\ \E k \in 1..Len(ns) : ns[k].id = ps[i].id /\ ns[k].type = "error"

\* C25: daysUntilDue is the number of full 24-hour periods between now and
\* the due instant d, counted towards zero, so when the notifier runs a
\* payment that is not paid is notified exactly when -1 day < d - now < 4
\* days, and one past due by less than a day has daysUntilDue 0 and is
\* notified as an error
C25_TruncatedWindow ==
  [][/\ clock = ClockStart => TruncatedWindow(payments, notifications, clock)
     /\ NotifierRan => TruncatedWindow(payments', notifications', clock')]_vars

\* half a day after its due instant a payment was added: it is notified as
\* an error, the pending payment due a day earlier is not notified
C25_Witness ==
  /\ result = Toast("PaymentAdded")
  /\ clock = ClockStart + 1
  /\ Len(payments) = Len(SeedPayments) + 2
  /\ JustPastDue(payments[1], clock)
  /\ notifications[1].id = payments[1].id /\ notifications[1].type = "error"
  /\ payments[2].status = "pending" /\ payments[2].dueDate = Date2025(1, 31)
  /\ \A k \in 1..Len(notifications) : notifications[k].id # payments[2].id

\* every notification carries the id of a payment that is not paid
OfUnpaid(ps, ns) ==
  \A k \in 1..Len(ns) :
    \E i \in 1..Len(ps) : ps[i].id = ns[k].id /\ ps[i].status # "paid"

\* C26: after markPaymentAsPaid(id) and the effect that follows it no
\* notification has that id, and in every state every notification has the
\* id of a payment that is not paid
C26_NoNotificationOfPaid ==
  [][/\ OfUnpaid(payments, notifications)
     /\ OfUnpaid(payments', notifications')
     /\ MarkedPaid
          => \A paymentId \in PaymentIds \cup {AbsentId} :
               \/ ~markPaymentAsPaid(paymentId)
               \/ \A k \in 1..Len(notifications') : notifications'[k].id # paymentId]_vars

\* the payment due today was notified and has just been marked as paid: only
\* the notification of the added payment is left
C26_Witness ==
  /\ result = Toast("PaymentMarkedPaid")
  /\ clock = ClockStart
  /\ Len(payments) = Len(SeedPayments) + 1
  /\ payments[4].id = "3" /\ payments[4].status = "paid"
  /\ Head(payments).status = "pending" /\ Head(payments).dueDate = Date2025(2, 3)
  /\ Len(notifications) = 1
  /\ notifications[1].id = Head(payments).id

\* the record a call of an add handler stores
StoredBy(call) ==
  LET given == call.data
      fields == DOMAIN given \cup {"id"}
                  \cup (IF call.op = "addPayment" THEN {"status"} ELSE {})
  IN  [k \in fields |->
         IF k = "id" THEN NumberToString(clock)
         ELSE IF k = "status" /\ call.op = "addPayment" THEN "pending"
         ELSE given[k]]

\* the three collections after one call on its own
AfterCall(call, cols) ==
  CASE call.op = "addTransaction" ->
         [cols EXCEPT !.transactions = <<StoredBy(call)>> \o @]
    [] call.op = "addShift" ->
         [cols EXCEPT !.shifts = <<StoredBy(call)>> \o @]
    [] call.op = "addPayment" ->
         [cols EXCEPT !.payments = <<StoredBy(call)>> \o @]
    [] call.op = "markPaymentAsPaid" ->
         [cols EXCEPT !.payments =
            [i \in 1..Len(@) |->
               IF @[i].id = call.paymentId THEN [@[i] EXCEPT !.status = "paid"] ELSE @[i]]]

Collections(ts, ss, ps) == [transactions |-> ts, shifts |-> ss, payments |-> ps]

\* C27: when two handlers are called before the next render, no update is
\* lost: the collections after the render are those that the first call
\* followed by the second would give, two adds and an addPayment with a
\* markPaymentAsPaid alike
C27_NoLostUpdate ==
  [][\A c1, c2 \in BatchCalls :
       \/ ~Batch(<<c1, c2>>)
       \/ Collections(transactions', shifts', payments')
            = AfterCall(c2, AfterCall(c1, Collections(transactions, shifts, payments)))]_vars

\* a payment was added and marked as paid in one event, after an event that
\* added a transaction and marked the first seed payment as paid
C27_Witness ==
  /\ result = Toast("PaymentMarkedPaid")
  /\ Len(payments) = Len(SeedPayments) + 1
  /\ Head(payments).id = NumberToString(ClockStart)
  /\ Head(payments).status = "paid"
  /\ payments[2].id = "1" /\ payments[2].status = "paid"
  /\ payments[4].status = "overdue"
  /\ Len(transactions) = Len(SeedTransactions) + 1

Added(title) == result' = Toast(title) /\ clock' = clock

\* C28: each handler touches only its own collection, so the totals and the
\* balance change only in a step of addTransaction and the period salaries
\* only in a step of addShift (both are computed from their collection alone,
\* so they are compared in the steps that change it)
C28_OwnCollectionOnly ==
  [][/\ Added("TransactionAdded")
          => \A data \in TransactionInputs :
               ~SubmitTransaction(data) \/ UNCHANGED <<payments, shifts>>
     /\ Added("ShiftAdded")
          => \A data \in ShiftInputs :
               ~SubmitShift(data) \/ UNCHANGED <<transactions, payments>>
     /\ Added("PaymentAdded")
          => \A data \in PaymentInputs :
               ~SubmitPayment(data) \/ UNCHANGED <<transactions, shifts>>
     /\ MarkedPaid
          => \A paymentId \in PaymentIds \cup {AbsentId} :
               ~markPaymentAsPaid(paymentId) \/ UNCHANGED <<transactions, shifts>>
     /\ (/\ transactions' # transactions
         /\ \/ totalIncome' # totalIncome
            \/ totalExpenses' # totalExpenses
            \/ balance' # balance)
          => /\ Added("TransactionAdded")
             /\ \E data \in TransactionInputs : SubmitTransaction(data)
     /\ (/\ shifts' # shifts
         /\ \/ calculateSalary(salaryPeriod1)' # calculateSalary(salaryPeriod1)
            \/ calculateSalary(salaryPeriod2)' # calculateSalary(salaryPeriod2))
          => /\ Added("ShiftAdded")
             /\ \E data \in ShiftInputs : SubmitShift(data)]_vars

\* a shift was just added after a payment had been marked as paid: the first
\* period has pay, the totals and the balance are those of the seed data
C28_Witness ==
  /\ result = Toast("ShiftAdded")
  /\ Len(salaryPeriod1) = 1 /\ calculateSalary(salaryPeriod1) = Unit * Unit
  /\ transactions = SeedTransactions
  /\ totalIncome = 110000 * Unit /\ totalExpenses = 20500 * Unit
  /\ balance = 89500 * Unit
  /\ Len(payments) = Len(SeedPayments)
  /\ payments[1].status = "paid"

\* C29: in every reachable state the pay of the two periods adds up to the
\* pay of all shifts and the two period counts add up to the number of
\* shifts: no shift is counted twice or left out
C29_PeriodsPartition ==
  /\ calculateSalary(salaryPeriod1) + calculateSalary(salaryPeriod2)
       = calculateSalary(shifts)
  /\ Len(salaryPeriod1) + Len(salaryPeriod2) = Len(shifts)

\* a shift of the 29th was added after one of the 1st: one shift in the first
\* period, five in the second
C29_Witness ==
  /\ result = Toast("ShiftAdded")
  /\ Len(shifts) = Len(SeedShifts) + 2
  /\ getDate(shifts[1].date) = 29 /\ getDate(shifts[2].date) = 1
  /\ Len(salaryPeriod1) = 1 /\ Len(salaryPeriod2) = 5
  /\ calculateSalary(salaryPeriod1) = Unit * Unit
  /\ calculateSalary(shifts) = (26700 * Unit * Unit) + (2 * Unit * Unit)

AllPaid(ps, paymentId) ==
  \A i \in 1..Len(ps) : ps[i].id = paymentId => ps[i].status = "paid"

\* C30: markPaymentAsPaid is idempotent: after a call every payment of the
\* id is paid and a second call with the same id would give the same
\* payments again, and a call for a payment that is already paid changes no
\* payment
C30_MarkPaidIdempotent ==
  [][MarkedPaid
       => \A paymentId \in PaymentIds \cup {AbsentId} :
            \/ ~markPaymentAsPaid(paymentId)
            \/ /\ AllPaid(payments', paymentId)
               /\ [i \in 1..Len(payments') |-> SetPaid(payments'[i], paymentId)] = payments'
               /\ AllPaid(payments, paymentId) => payments' = payments]_vars

\* the seed payment that is paid was marked as paid: the payments are those
\* of the seed data
C30_Witness ==
  /\ result = Toast("PaymentMarkedPaid")
  /\ payments = SeedPayments
  /\ payments[4].status = "paid"
  /\ clock = ClockStart + 1

====
